---- MODULE Spec2Model ----
(***************************************************************************)
(* go-bsm: parser for the BSM audit-trail format (src/bsm.go).             *)
(*                                                                         *)
(* The module models                                                       *)
(*   - the integer helpers bytesToUint16 / bytesToUint32,                  *)
(*   - the size oracle determineTokenSize, one operator per branch of its  *)
(*     switch,                                                             *)
(*   - the stream reader TokenFromByteInput as a state machine over a byte *)
(*     source that may answer a read with fewer bytes than asked for.      *)
(*   - the callers of TokenFromByteInput: successive calls on one source,  *)
(*     the record assembler and the record generator, and two parsers      *)
(*     whose steps are interleaved.                                        *)
(*                                                                         *)
(* Go slices are 0-based and half-open; sequences here are 1-based, so     *)
(* input[i] is At(input, i) and input[a:b] is Slice(input, a, b).          *)
(***************************************************************************)
EXTENDS Integers, Sequences, FiniteSets, TLC

VARIABLES
    token,        \* oracle runs: the image the prefixes are taken from
    input,        \* oracle runs: the prefix handed to determineTokenSize
    res,          \* oracle runs: what determineTokenSize returned for input
    src,          \* reader: bytes the io.Reader has not delivered yet
    short,        \* reader: whether the io.Reader may answer with fewer bytes
                  \*         than asked for, none included, or with its last
                  \*         bytes and EOF together
    tokenBuffer,  \* reader: TokenFromByteInput's tokenBuffer
    bufidx,       \* reader: index where to fill the buffer
    buflen,       \* reader: size returned by determineTokenSize
    increase,     \* reader: bytes still to read before asking again
    pc,           \* reader: position inside TokenFromByteInput
    ret,          \* reader: what TokenFromByteInput returned
    stream,       \* caller: the bytes the source held when it was opened
    caller,       \* caller: who calls TokenFromByteInput on the source
    cpc,          \* caller: position of the caller
    calls,        \* caller: the calls finished so far, in order
    rec,          \* caller: what the record assembler returned
    gen,          \* caller: what the record generator has yielded
    other         \* two parsers: the frame of the parser that is not running

readerVars == <<src, short, tokenBuffer, bufidx, buflen, increase, pc, ret>>
callerVars == <<stream, caller, cpc, calls, rec, gen, other>>
vars ==
    <<token, input, res, src, short, tokenBuffer, bufidx, buflen, increase, pc, ret,
      stream, caller, cpc, calls, rec, gen, other>>

----------------------------------------------------------------------------
(* Bounds of the model.                                                    *)

\* length of the byte image the prefixes of an oracle run are taken from
MaxLen == 42
\* length of the longest byte source handed to TokenFromByteInput
MaxSrc == 19

----------------------------------------------------------------------------
(* Bytes and slices.                                                       *)

Byte == 0 .. 255

At(s, i) == s[i + 1]

Slice(s, lo, hi) == SubSeq(s, lo + 1, hi)

\* math.Pow(256, exp) for the exponents a slice of at most four bytes gives
RECURSIVE powerOf256(_)
powerOf256(exp) == IF exp = 0 THEN 1 ELSE 256 * powerOf256(exp - 1)

\* the loop of bytesToUint16: result += coeff * powerOf256, in uint16
RECURSIVE sumUint16(_, _, _)
sumUint16(s, i, result) ==
    IF i >= Len(s) THEN result
    ELSE LET coeff == At(s, i)
             pow   == powerOf256(Len(s) - i - 1) % 65536
         IN  sumUint16(s, i + 1, (result + ((coeff * pow) % 65536)) % 65536)

\* variant: only the last byte of the slice is taken
bytesToUint16LowByte(s) ==
    IF 2 < Len(s) THEN [val |-> 0, err |-> TRUE]
    ELSE [val |-> IF Len(s) = 0 THEN 0 ELSE At(s, Len(s) - 1), err |-> FALSE]

bytesToUint16(s) ==
    IF 2 < Len(s) THEN [val |-> 0, err |-> TRUE]
    ELSE [val |-> sumUint16(s, 0, 0), err |-> FALSE]

\* A uint32 is kept as <<upper 16 bits, lower 16 bits>>: the checker's
\* integers end at 2^31 - 1.
u32(n) == <<n \div 65536, n % 65536>>

\* a + b in uint32
add32(a, b) ==
    LET lo == a[2] + b[2]
    IN  <<(a[1] + b[1] + (lo \div 65536)) % 65536, lo % 65536>>

\* uint32(coeff) * uint32(math.Pow(256, exp)) in uint32
RECURSIVE mulPow32(_, _)
mulPow32(coeff, exp) ==
    IF exp = 0 THEN u32(coeff)
    ELSE LET c == mulPow32(coeff, exp - 1)
         IN  <<(c[1] * 256 + (c[2] \div 256)) % 65536, (c[2] * 256) % 65536>>

\* int(v) > n for an int n the checker can hold (int has 64 bits)
intLess(n, v) == IF v[1] >= 32768 THEN TRUE ELSE n < v[1] * 65536 + v[2]

\* the loop of bytesToUint32: result += coeff * powerOf256, in uint32
RECURSIVE sumUint32(_, _, _)
sumUint32(s, i, result) ==
    IF i >= Len(s) THEN result
    ELSE sumUint32(s, i + 1, add32(result, mulPow32(At(s, i), Len(s) - i - 1)))

\* variant: the guard lets a slice of five bytes through
bytesToUint32UpToFive(s) ==
    IF 5 < Len(s) THEN [val |-> u32(0), err |-> TRUE]
    ELSE [val |-> sumUint32(s, 0, u32(0)), err |-> FALSE]

bytesToUint32(s) ==
    IF 4 < Len(s) THEN [val |-> u32(0), err |-> TRUE]
    ELSE [val |-> sumUint32(s, 0, u32(0)), err |-> FALSE]

\* bytes.Count(s, []byte{0x00})
countNul(s) == Cardinality({i \in 1 .. Len(s) : s[i] = 0})

----------------------------------------------------------------------------
(* The three named results of determineTokenSize (size, moreBytes, err).   *)

sized(n) == [size |-> n, moreBytes |-> 0, err |-> "none"]

needMore(k) == [size |-> 0, moreBytes |-> k, err |-> "none"]

failed(kind) == [size |-> 0, moreBytes |-> 0, err |-> kind]

----------------------------------------------------------------------------
(* determineTokenSize: the branches of the switch on input[0].             *)

\* case 0x11: file token
fileTokenSize(in) ==
    IF Len(in) < (1 + 4 + 4 + 2) THEN needMore((1 + 4 + 4 + 2) - Len(in))
    ELSE LET fileNameLength == bytesToUint16(Slice(in, 9, 11))
         IN  IF fileNameLength.err THEN failed("overflow")
             ELSE sized(1 + 4 + 4 + 2 + fileNameLength.val + 1)

\* case 0x15: expanded 32 bit header token
expandedHeader32Size(in) ==
    IF Len(in) < 15 THEN needMore(15 - Len(in))
    ELSE LET addrlen == bytesToUint32(Slice(in, 10, 14))
         IN  IF addrlen.err THEN failed("overflow")
             ELSE IF addrlen.val = u32(4) THEN sized(1 + 4 + 1 + 2 + 2 + 4 + 4 + 4 + 4)
             ELSE IF addrlen.val = u32(16) THEN sized(1 + 4 + 1 + 2 + 2 + 4 + 16 + 4 + 4)
             ELSE failed("invalid_address")

\* variant of case 0x21: the product is computed in uint8
arbitraryDataSizeUint8(in) ==
    IF Len(in) < 4 THEN needMore(4 - Len(in))
    ELSE LET unitSize  == At(in, 2)
             unitCount == At(in, 3)
         IN  sized(1 + 1 + 1 + 1 + ((unitSize * unitCount) % 256))

\* case 0x21: arbitrary data token
arbitraryDataSize(in) ==
    IF Len(in) < 4 THEN needMore(4 - Len(in))
    ELSE LET unitSize  == At(in, 2)
             unitCount == At(in, 3)
         IN  sized(1 + 1 + 1 + 1 + unitSize * unitCount)

\* case 0x23: path token
pathTokenSize(in) ==
    IF Len(in) < 3 THEN needMore(3 - Len(in))
    ELSE LET count == bytesToUint16(Slice(in, 1, 3))
         IN  IF count.err THEN failed("overflow")
             ELSE sized(1 + 2 + count.val + 1)

\* case 0x25: path attr token
pathAttrSize(in) ==
    IF Len(in) < 3 THEN needMore(3 - Len(in))
    ELSE LET strCount == bytesToUint16(Slice(in, 1, 3))
         IN  IF strCount.err THEN failed("overflow")
             ELSE IF countNul(Slice(in, 3, Len(in))) < strCount.val THEN needMore(1)
             ELSE sized(Len(in))

\* case 0x28: text token
textTokenSize(in) ==
    IF Len(in) < 3 THEN needMore(3 - Len(in))
    ELSE LET count == bytesToUint16(Slice(in, 1, 3))
         IN  IF count.err THEN failed("overflow")
             ELSE sized(1 + 2 + count.val + 1)

\* case 0x2d: 32bit arg token
argToken32Size(in) ==
    IF Len(in) < 8 THEN needMore(8 - Len(in))
    ELSE LET strlen == bytesToUint16(Slice(in, 6, 8))
         IN  IF strlen.err THEN failed("overflow")
             ELSE sized(1 + 1 + 4 + 2 + strlen.val + 1)

\* case 0x34: groups token
groupsTokenSize(in) ==
    IF Len(in) < 3 THEN needMore(3 - Len(in))
    ELSE LET count == bytesToUint16(Slice(in, 1, 3))
         IN  IF count.err THEN failed("overflow")
             ELSE sized(1 + 2 + count.val * 4)

\* case 0x3c: exec args token
execArgsSize(in) ==
    IF Len(in) < 5 THEN needMore(5 - Len(in))
    ELSE LET strCount == bytesToUint32(Slice(in, 1, 5))
         IN  IF strCount.err THEN failed("overflow")
             ELSE IF intLess(countNul(Slice(in, 5, Len(in))), strCount.val) THEN needMore(1)
             ELSE sized(Len(in))

\* case 0x3d: exec env token
execEnvSize(in) ==
    IF Len(in) < 5 THEN needMore(5 - Len(in))
    ELSE LET strCount == bytesToUint32(Slice(in, 1, 5))
         IN  IF strCount.err THEN failed("overflow")
             ELSE IF intLess(countNul(Slice(in, 5, Len(in))), strCount.val) THEN needMore(1)
             ELSE sized(Len(in))

\* case 0x60: zone name token
zonenameSize(in) ==
    IF Len(in) < 3 THEN needMore(3 - Len(in))
    ELSE LET strlen == bytesToUint16(Slice(in, 1, 3))
         IN  IF strlen.err THEN failed("overflow")
             ELSE sized(1 + 2 + strlen.val + 1)

\* case 0x71: 64 bit arg token
argToken64Size(in) ==
    IF Len(in) < 12 THEN needMore(12 - Len(in))
    ELSE LET strlen == bytesToUint16(Slice(in, 10, 12))
         IN  IF strlen.err THEN failed("overflow")
             ELSE sized(1 + 1 + 8 + 2 + strlen.val + 1)

\* case 0x79: 64 bit expanded header token
expandedHeader64Size(in) ==
    IF Len(in) < 15 THEN needMore(15 - Len(in))
    ELSE LET addrlen == bytesToUint32(Slice(in, 10, 14))
         IN  IF addrlen.err THEN failed("overflow")
             ELSE IF addrlen.val = u32(4) THEN sized(1 + 4 + 2 + 2 + 2 + 4 + 4 + 8 + 8)
             ELSE IF addrlen.val = u32(16) THEN sized(1 + 4 + 2 + 2 + 2 + 4 + 16 + 8 + 8)
             ELSE failed("invalid_address")

\* case 0x7a: expanded 32bit subject token
expandedSubject32Size(in) ==
    IF Len(in) < 34 THEN needMore(34 - Len(in))
    ELSE LET addrlen == At(in, 33)
         IN  IF addrlen = 4 THEN sized(1 + 4 + 4 + 4 + 4 + 4 + 4 + 4 + 4 + 1 + 4)
             ELSE IF addrlen = 16 THEN sized(1 + 4 + 4 + 4 + 4 + 4 + 4 + 4 + 4 + 1 + 16)
             ELSE failed("invalid_address")

\* case 0x7c: expanded 64bit subject token
expandedSubject64Size(in) ==
    IF Len(in) < 38 THEN needMore(38 - Len(in))
    ELSE LET addrlen == At(in, 37)
         IN  IF addrlen = 4 THEN sized(1 + 4 + 4 + 4 + 4 + 4 + 4 + 4 + 8 + 1 + 4)
             ELSE IF addrlen = 16 THEN sized(1 + 4 + 4 + 4 + 4 + 4 + 4 + 4 + 8 + 1 + 16)
             ELSE failed("invalid_address")

\* variant of case 0x7f: the IPv6 case counts one address only
expandedSocketSizeOneAddress(in) ==
    IF Len(in) < 7 THEN needMore(7 - Len(in))
    ELSE LET addrlen == bytesToUint16(Slice(in, 5, 7))
         IN  IF addrlen.err THEN failed("overflow")
             ELSE IF addrlen.val = 4 THEN sized(1 + 2 + 2 + 2 + 2 + 4 + 2 + 4)
             ELSE IF addrlen.val = 16 THEN sized(1 + 2 + 2 + 2 + 2 + 16 + 2 + 4)
             ELSE failed("invalid_address")

\* case 0x7f: expanded socket token
expandedSocketSize(in) ==
    IF Len(in) < 7 THEN needMore(7 - Len(in))
    ELSE LET addrlen == bytesToUint16(Slice(in, 5, 7))
         IN  IF addrlen.err THEN failed("overflow")
             ELSE IF addrlen.val = 4 THEN sized(1 + 2 + 2 + 2 + 2 + 4 + 2 + 4)
             ELSE IF addrlen.val = 16 THEN sized(1 + 2 + 2 + 2 + 2 + 16 + 2 + 16)
             ELSE failed("invalid_address")

\* the tags whose case only assigns a constant to size
FixedTags ==
    {\h13, \h14, \h22, \h24, \h26, \h27, \h2a, \h2b, \h2c, \h2e, \h2f, \h32,
     \h3e, \h52, \h72, \h73, \h74, \h75, \h77, \h7e}

\* the constant each of those cases assigns
fixedTokenSize(t) ==
    CASE t = \h13 -> 1 + 2 + 4
      [] t = \h14 -> 1 + 4 + 1 + 2 + 2 + 4 + 4
      [] t = \h22 -> 1 + 1 + 4
      [] t = \h24 -> 1 + 4 + 4 + 4 + 4 + 4 + 4 + 4 + 4 + 4
      [] t = \h26 -> 1 + 4 + 4 + 4 + 4 + 4 + 4 + 4 + 4 + 4
      [] t = \h27 -> 1 + 1 + 4
      [] t = \h2a -> 1 + 4
      [] t = \h2b -> 1 + 1 + 1 + 2 + 2 + 2 + 1 + 1 + 2 + 4 + 4
      [] t = \h2c -> 1 + 2
      [] t = \h2e -> 1 + 2 + 2 + 4
      [] t = \h2f -> 1 + 4
      [] t = \h32 -> 1 + 4 + 4 + 4 + 4 + 4 + 4 + 4
      [] t = \h3e -> 1 + 1 + 4 + 4 + 4 + 8 + 4
      [] t = \h52 -> 1 + 4 + 4
      [] t = \h72 -> 1 + 1 + 8
      [] t = \h73 -> 1 + 1 + 4 + 4 + 4 + 8 + 8
      [] t = \h74 -> 1 + 4 + 1 + 2 + 2 + 8 + 8
      [] t = \h75 -> 1 + 4 + 4 + 4 + 4 + 4 + 4 + 4 + 8 + 4
      [] t = \h77 -> 1 + 4 + 4 + 4 + 4 + 4 + 4 + 4 + 8 + 8
      [] t = \h7e -> 1 + 1 + 16

\* variant of the default case: err is left nil
unknownTokenSizeNoError(in) == [size |-> 0, moreBytes |-> 0, err |-> "none"]

\* default: the tag has no case
unknownTokenSize(in) == failed("unknown_token")

\* zero bytes given: ask for the token ID
missingTokenID(in) == needMore(1)

determineTokenSize(in) ==
    IF 0 = Len(in) THEN missingTokenID(in)
    ELSE LET t == At(in, 0)
         IN  CASE t = \h11 -> fileTokenSize(in)
               [] t = \h15 -> expandedHeader32Size(in)
               [] t = \h21 -> arbitraryDataSize(in)
               [] t = \h23 -> pathTokenSize(in)
               [] t = \h25 -> pathAttrSize(in)
               [] t = \h28 -> textTokenSize(in)
               [] t = \h2d -> argToken32Size(in)
               [] t = \h34 -> groupsTokenSize(in)
               [] t = \h3c -> execArgsSize(in)
               [] t = \h3d -> execEnvSize(in)
               [] t = \h60 -> zonenameSize(in)
               [] t = \h71 -> argToken64Size(in)
               [] t = \h79 -> expandedHeader64Size(in)
               [] t = \h7a -> expandedSubject32Size(in)
               [] t = \h7c -> expandedSubject64Size(in)
               [] t = \h7f -> expandedSocketSize(in)
               [] t \in FixedTags -> sized(fixedTokenSize(t))
               [] OTHER -> unknownTokenSize(in)

----------------------------------------------------------------------------
(* Byte images handed to the oracle and to the reader.  An image is a tag  *)
(* byte, filler bytes, and the length / count / address-type field of the  *)
(* token at its wire offset, as the tests lay tokens out.                  *)

\* <<offset, width>> of the length, count or address-type field of a token
wireField(t) ==
    CASE t = \h11 -> <<9, 2>>
      [] t = \h15 -> <<10, 4>>
      [] t = \h21 -> <<2, 2>>
      [] t \in {\h23, \h25, \h28, \h34, \h60} -> <<1, 2>>
      [] t = \h2c -> <<1, 2>>
      [] t = \h2d -> <<6, 2>>
      [] t \in {\h3c, \h3d} -> <<1, 4>>
      [] t = \h71 -> <<10, 2>>
      [] t = \h79 -> <<10, 4>>
      [] t \in {\h7a, \h7b} -> <<33, 4>>
      [] t = \h7c -> <<37, 1>>
      [] t = \h7d -> <<37, 4>>
      [] t = \h7f -> <<5, 2>>
      [] OTHER -> <<0, 0>>

\* byte values tried in the field: top (upper two of four bytes), hi, lo
TopVals == {0, 4, 16}
HiVals == {0, 1, 255}
LoVals == {0, 3, 4, 16, 255}

\* filler patterns, repeated over the offsets outside the field
Fillers == {<<0>>, <<4>>, <<65, 65, 0>>}

\* the bytes of a field of width w, big-endian
fieldBytes(w, top, hi, lo) ==
    CASE w = 4 -> <<top, top, hi, lo>>
      [] w = 2 -> <<hi, lo>>
      [] w = 1 -> <<lo>>
      [] OTHER -> <<>>

\* the image of length n of a token with tag t
image(t, top, hi, lo, fill, n) ==
    LET f == wireField(t)
        fb == fieldBytes(f[2], top, hi, lo)
    IN  [i \in 1 .. n |->
            IF i = 1 THEN t
            ELSE IF f[2] > 0 /\ i - 1 >= f[1] /\ i - 1 < f[1] + f[2]
                 THEN fb[i - f[1]]
                 ELSE fill[((i - 1) % Len(fill)) + 1]]

\* field bytes an image of tag t does not have are fixed to 0
canonical(t, top, hi, lo) ==
    LET w == wireField(t)[2]
    IN  /\ (w < 4 => top = 0)
        /\ (w < 2 => hi = 0)
        /\ (w < 1 => lo = 0)

\* the tags of the token table: those determineTokenSize has a case for,
\* and those only the documentation and the tests know
VariableTags ==
    {\h11, \h15, \h21, \h23, \h25, \h28, \h2d, \h34, \h3c, \h3d, \h60, \h71,
     \h79, \h7a, \h7c, \h7f}
KnownTags == FixedTags \cup VariableTags
TableTags == KnownTags \cup {\h7b, \h7d, \h80, \h81, \h82}

\* prefixes of every length are tried for the table's tags and for 0x00,
\* the tag byte and two more bytes for the other values of the first byte
prefixLens(t) == IF t \in TableTags \cup {0} THEN 0 .. MaxLen ELSE 0 .. 2

----------------------------------------------------------------------------
(* ParseHeaderToken32bit and the tokens TokenFromByteInput can return.     *)

NoToken == [TokenID |-> -1]

\* HeaderToken32bit{}, the value ParseHeaderToken32bit returns with an error
ZeroHeaderToken32bit ==
    [TokenID |-> 0, RecordByteCount |-> u32(0), VersionNumber |-> 0,
     EventType |-> 0, EventModifier |-> 0, Seconds |-> u32(0), NanoSeconds |-> u32(0)]

\* variant: the token ID of the input is not compared with 0x14
ParseHeaderToken32bitAnyID(in) ==
    IF Len(in) # 18 THEN [err |-> "invalid_length", token |-> ZeroHeaderToken32bit]
    ELSE [err |-> "none",
          token |-> [TokenID         |-> At(in, 0),
                     RecordByteCount |-> bytesToUint32(Slice(in, 1, 5)).val,
                     VersionNumber   |-> At(in, 5),
                     EventType       |-> bytesToUint16(Slice(in, 6, 8)).val,
                     EventModifier   |-> bytesToUint16(Slice(in, 8, 10)).val,
                     Seconds         |-> bytesToUint32(Slice(in, 10, 14)).val,
                     NanoSeconds     |-> bytesToUint32(Slice(in, 14, 18)).val]]

ParseHeaderToken32bit(in) ==
    IF Len(in) # 18 THEN [err |-> "invalid_length", token |-> ZeroHeaderToken32bit]
    ELSE IF At(in, 0) # \h14 THEN [err |-> "token_id_mismatch", token |-> ZeroHeaderToken32bit]
    ELSE LET count   == bytesToUint32(Slice(in, 1, 5))
             evtype  == bytesToUint16(Slice(in, 6, 8))
             evmod   == bytesToUint16(Slice(in, 8, 10))
             seconds == bytesToUint32(Slice(in, 10, 14))
             nanos   == bytesToUint32(Slice(in, 14, 18))
         IN  IF count.err \/ evtype.err \/ evmod.err \/ seconds.err \/ nanos.err
             THEN [err |-> "overflow", token |-> ZeroHeaderToken32bit]
             ELSE [err |-> "none",
                   token |-> [TokenID         |-> At(in, 0),
                              RecordByteCount |-> count.val,
                              VersionNumber   |-> At(in, 5),
                              EventType       |-> evtype.val,
                              EventModifier   |-> evmod.val,
                              Seconds         |-> seconds.val,
                              NanoSeconds     |-> nanos.val]]

\* variant of the switch: the IPortToken takes its TokenID from tokenBuffer[1]
decodeTokenIDFromPort(buf) ==
    CASE At(buf, 0) = \h14 ->
            LET r == ParseHeaderToken32bit(buf)
            IN  IF r.err # "none" THEN [kind |-> "error", err |-> r.err, tok |-> NoToken]
                ELSE [kind |-> "token", err |-> "none", tok |-> r.token]
      [] At(buf, 0) = \h2c ->
            LET port == bytesToUint16(Slice(buf, 1, 3))
            IN  IF Len(buf) < 3
                THEN [kind |-> "panic", err |-> "slice_bounds", tok |-> NoToken]
                ELSE IF port.err THEN [kind |-> "error", err |-> "overflow", tok |-> NoToken]
                ELSE [kind |-> "token", err |-> "none",
                      tok |-> [TokenID |-> At(buf, 1), PortNumber |-> port.val]]
      [] OTHER -> [kind |-> "error", err |-> "new_token_id", tok |-> NoToken]

\* the switch on tokenBuffer[0] that ends TokenFromByteInput
decodeToken(buf) ==
    CASE At(buf, 0) = \h14 ->
            LET r == ParseHeaderToken32bit(buf)
            IN  IF r.err # "none" THEN [kind |-> "error", err |-> r.err, tok |-> NoToken]
                ELSE [kind |-> "token", err |-> "none", tok |-> r.token]
      [] At(buf, 0) = \h2c ->
            LET port == bytesToUint16(Slice(buf, 1, 3))
            IN  IF Len(buf) < 3
                THEN [kind |-> "panic", err |-> "slice_bounds", tok |-> NoToken]
                ELSE IF port.err THEN [kind |-> "error", err |-> "overflow", tok |-> NoToken]
                ELSE [kind |-> "token", err |-> "none",
                      tok |-> [TokenID |-> At(buf, 0), PortNumber |-> port.val]]
      [] OTHER -> [kind |-> "error", err |-> "new_token_id", tok |-> NoToken]

----------------------------------------------------------------------------
(* State shared by the two kinds of run.                                   *)

NoResult == [size |-> -1, moreBytes |-> -1, err |-> "pending"]

NoReturn == [kind |-> "none", err |-> "none", tok |-> NoToken]

returnError(kind) == [kind |-> "error", err |-> kind, tok |-> NoToken]

returnPanic == [kind |-> "panic", err |-> "slice_bounds", tok |-> NoToken]

\* no record assembled yet, and nothing yielded yet
NoRecord == [kind |-> "none", err |-> "none", header |-> NoToken, tokens |-> <<>>, trailer |-> NoToken]

NoRecords == [yielded |-> <<>>, end |-> "running"]

\* no second parser
NoFrame == [id |-> 0]

----------------------------------------------------------------------------
(* Oracle runs: determineTokenSize applied to a prefix of an image.        *)

InitOracle ==
    /\ \E t \in Byte, top \in TopVals, hi \in HiVals, lo \in LoVals,
          fill \in Fillers, n \in 0 .. MaxLen :
          /\ canonical(t, top, hi, lo)
          /\ n \in prefixLens(t)
          /\ token = image(t, top, hi, lo, fill, MaxLen)
          /\ input = SubSeq(token, 1, n)
    /\ res = NoResult
    /\ src = <<>>
    /\ short = FALSE
    /\ tokenBuffer = <<>>
    /\ bufidx = 0
    /\ buflen = 0
    /\ increase = 0
    /\ pc = "oracle"
    /\ ret = NoReturn
    /\ stream = <<>>
    /\ caller = "none"
    /\ cpc = "calling"
    /\ calls = <<>>
    /\ rec = NoRecord
    /\ gen = NoRecords
    /\ other = NoFrame

\* a call of determineTokenSize on the prefix
Determine ==
    /\ pc = "oracle"
    /\ res = NoResult
    /\ res' = determineTokenSize(input)
    /\ UNCHANGED <<token, input>>
    /\ UNCHANGED readerVars
    /\ UNCHANGED callerVars

----------------------------------------------------------------------------
(* Reader runs: TokenFromByteInput on an io.Reader holding src.            *)

\* field bytes <<top, hi, lo>> of the sources
ReaderFields == {<<0, 0, 0>>, <<0, 0, 4>>, <<0, 35, 66>>, <<4, 0, 0>>}
ReaderFillers == {<<0>>, <<65, 65, 0>>}

\* scenario S1, the header of TestParseHeaderToken32bit
HeaderS1 ==
    <<\h14, \h00, \h00, \h00, \h38, \h0b, \hc8, \h00, \h00, \h5a,
      \h9a, \hc2, \he6, \h00, \h00, \h03, \h01, \h28>>

\* lengths of the sources: every truncation up to MaxSrc, and a whole image
sourceLens(t) == IF t \in TableTags \cup {0} THEN (0 .. MaxSrc) \cup {MaxLen} ELSE 0 .. 2

Min(a, b) == IF a < b THEN a ELSE b

\* the answers (n, err) a Read asking for want bytes may give when bytes
\* remain: all the bytes asked for, as far as they are there; or, from a
\* source that answers short, any smaller count, 0 included, with no error,
\* or the last bytes of the source together with EOF
readAnswers(want) ==
    IF short
    THEN {[n |-> k, eof |-> FALSE] : k \in 0 .. Min(want, Len(src))}
         \cup (IF Len(src) <= want THEN {[n |-> Len(src), eof |-> TRUE]} ELSE {})
    ELSE {[n |-> Min(want, Len(src)), eof |-> FALSE]}

\* make([]byte, n) followed by copy(tmp, buf)
grow(buf, n) == [i \in 1 .. n |-> IF i <= Len(buf) THEN buf[i] ELSE 0]

\* buf after a Read into buf[from:...] that returned n bytes
filled(buf, from, n) ==
    [i \in 1 .. Len(buf) |-> IF i > from /\ i <= from + n THEN src[i - from] ELSE buf[i]]

InitReader ==
    /\ \/ \E t \in Byte, f \in ReaderFields, fill \in ReaderFillers, k \in 0 .. MaxLen :
             /\ canonical(t, f[1], f[2], f[3])
             /\ k \in sourceLens(t)
             /\ token = image(t, f[1], f[2], f[3], fill, k)
       \/ \E k \in 0 .. MaxSrc : token = SubSeq(HeaderS1 \o <<\h2c>>, 1, k)
    /\ src = token
    /\ short \in BOOLEAN
    /\ input = <<>>
    /\ res = NoResult
    /\ tokenBuffer = <<0>>
    /\ bufidx = 0
    /\ buflen = 0
    /\ increase = 0
    /\ pc = "read_id"
    /\ ret = NoReturn
    /\ stream = token
    /\ caller = "single"
    /\ cpc = "calling"
    /\ calls = <<>>
    /\ rec = NoRecord
    /\ gen = NoRecords
    /\ other = NoFrame

\* input.Read(tokenBuffer[0:1])
ReadTokenID ==
    /\ pc = "read_id"
    /\ IF src = <<>>
       THEN /\ ret' = returnError("EOF")
            /\ pc' = "done"
            /\ UNCHANGED <<src, tokenBuffer>>
       ELSE \E a \in readAnswers(1) :
            /\ tokenBuffer' = filled(tokenBuffer, 0, a.n)
            /\ src' = SubSeq(src, a.n + 1, Len(src))
            /\ IF a.eof THEN ret' = returnError("EOF") /\ pc' = "done"
               ELSE IF a.n # 1 THEN ret' = returnError("short_read") /\ pc' = "done"
               ELSE pc' = "size" /\ UNCHANGED ret
    /\ UNCHANGED <<token, input, res, short, bufidx, buflen, increase>>
    /\ UNCHANGED callerVars

\* determineTokenSize(tokenBuffer[0:1]) and the growth of the buffer
AskOracle ==
    /\ pc = "size"
    /\ LET r == determineTokenSize(Slice(tokenBuffer, 0, 1))
       IN  /\ input' = Slice(tokenBuffer, 0, 1)
           /\ res' = r
           /\ bufidx' = 1
           /\ buflen' = r.size
           /\ increase' = r.moreBytes
           /\ IF r.err # "none"
              THEN /\ ret' = returnError(r.err)
                   /\ pc' = "done"
                   /\ UNCHANGED tokenBuffer
              ELSE IF r.moreBytes # 0
              THEN /\ tokenBuffer' = grow(tokenBuffer, r.moreBytes + 1)
                   /\ pc' = "loop"
                   /\ UNCHANGED ret
              ELSE /\ pc' = "final"
                   /\ UNCHANGED <<tokenBuffer, ret>>
    /\ UNCHANGED <<token, src, short>>
    /\ UNCHANGED callerVars

\* one pass of "for increase > 0": slice, Read, bookkeeping, loop test
LoopRead ==
    /\ pc = "loop"
    /\ IF bufidx + increase > Len(tokenBuffer)
       THEN /\ ret' = returnPanic
            /\ pc' = "done"
            /\ UNCHANGED <<input, res, src, tokenBuffer, bufidx, buflen, increase>>
       ELSE IF src = <<>>
       THEN /\ ret' = returnError("EOF")
            /\ pc' = "done"
            /\ UNCHANGED <<input, res, src, tokenBuffer, bufidx, buflen, increase>>
       ELSE \E a \in readAnswers(increase) :
            LET n   == a.n
                buf == filled(tokenBuffer, bufidx, n)
                inc == IF n # increase THEN increase - n ELSE increase
            IN  /\ tokenBuffer' = buf
                /\ src' = SubSeq(src, n + 1, Len(src))
                /\ IF a.eof
                   THEN /\ ret' = returnError("EOF")
                        /\ pc' = "done"
                        /\ UNCHANGED <<input, res, bufidx, buflen, increase>>
                   ELSE /\ bufidx' = bufidx + n
                        /\ UNCHANGED ret
                        /\ IF inc > 0
                           THEN /\ increase' = inc
                                /\ pc' = "loop"
                                /\ UNCHANGED <<input, res, buflen>>
                           ELSE LET r == determineTokenSize(buf)
                                IN  /\ input' = buf
                                    /\ res' = r
                                    /\ buflen' = r.size
                                    /\ increase' = r.moreBytes
                                    /\ pc' = "final"
    /\ UNCHANGED <<token, short>>
    /\ UNCHANGED callerVars

\* the read of the remaining bytes into a buffer of buflen bytes
FinalRead ==
    /\ pc = "final"
    /\ IF bufidx > buflen
       THEN /\ ret' = returnPanic
            /\ pc' = "done"
            /\ UNCHANGED <<src, tokenBuffer>>
       ELSE IF buflen - bufidx = 0
       THEN /\ tokenBuffer' = grow(tokenBuffer, buflen)
            /\ pc' = "decode"
            /\ UNCHANGED <<src, ret>>
       ELSE IF src = <<>>
       THEN /\ tokenBuffer' = grow(tokenBuffer, buflen)
            /\ ret' = returnError("EOF")
            /\ pc' = "done"
            /\ UNCHANGED src
       ELSE \E a \in readAnswers(buflen - bufidx) :
            /\ tokenBuffer' = filled(grow(tokenBuffer, buflen), bufidx, a.n)
            /\ src' = SubSeq(src, a.n + 1, Len(src))
            /\ IF a.eof THEN ret' = returnError("EOF") /\ pc' = "done"
               ELSE IF a.n # buflen - bufidx
               THEN ret' = returnError("short_read") /\ pc' = "done"
               ELSE pc' = "decode" /\ UNCHANGED ret
    /\ UNCHANGED <<token, input, res, short, bufidx, buflen, increase>>
    /\ UNCHANGED callerVars

\* the switch on tokenBuffer[0]
Decode ==
    /\ pc = "decode"
    /\ ret' = decodeToken(tokenBuffer)
    /\ pc' = "done"
    /\ UNCHANGED <<token, input, res, src, short, tokenBuffer, bufidx, buflen, increase>>
    /\ UNCHANGED callerVars

\* what TokenFromByteInput returns on a source holding the bytes b that
\* answers every Read with all the bytes asked for, as many as it holds
TokenFromFullReads(b) ==
    IF b = <<>> THEN returnError("EOF")
    ELSE LET r    == determineTokenSize(Slice(b, 0, 1))
             rest == Len(b) - 1
         IN  IF r.err # "none" THEN returnError(r.err)
             ELSE IF r.moreBytes # 0
             THEN IF rest < r.moreBytes THEN returnError("EOF") ELSE returnPanic
             ELSE IF r.size - 1 = 0 THEN decodeToken(Slice(b, 0, 1))
             ELSE IF rest = 0 THEN returnError("EOF")
             ELSE IF rest < r.size - 1 THEN returnError("short_read")
             ELSE decodeToken(Slice(b, 0, r.size))

----------------------------------------------------------------------------
(* Decoder runs: ParseHeaderToken32bit applied to a byte slice.            *)

\* byte values put into one position of the header of scenario S1
ParseBytes == {\h00, \h01, \h14, \hff}

\* the slices handed to ParseHeaderToken32bit: the header of scenario S1
\* with one byte replaced, cut short or followed by a further byte, and
\* images of 17, 18 and 19 bytes of other tags
ParseInputs ==
    {[i \in 1 .. 18 |-> IF i = k THEN b ELSE HeaderS1[i]] : k \in 1 .. 18, b \in ParseBytes}
    \cup {SubSeq(HeaderS1 \o <<\h2c>>, 1, k) : k \in 0 .. 19}
    \cup {image(t, 0, 0, 4, fill, k) :
             t \in {\h00, \h14, \h15, \h74}, fill \in Fillers, k \in 17 .. 19}

InitParse ==
    /\ input \in ParseInputs
    /\ token = <<>>
    /\ res = NoResult
    /\ src = <<>>
    /\ short = FALSE
    /\ tokenBuffer = <<>>
    /\ bufidx = 0
    /\ buflen = 0
    /\ increase = 0
    /\ pc = "parse"
    /\ ret = NoReturn
    /\ stream = <<>>
    /\ caller = "none"
    /\ cpc = "calling"
    /\ calls = <<>>
    /\ rec = NoRecord
    /\ gen = NoRecords
    /\ other = NoFrame

\* a call of ParseHeaderToken32bit on the slice
ParseHeader ==
    /\ pc = "parse"
    /\ LET r == ParseHeaderToken32bit(input)
       IN  ret' = [kind |-> IF r.err = "none" THEN "token" ELSE "error",
                   err  |-> r.err,
                   tok  |-> r.token]
    /\ pc' = "parsed"
    /\ UNCHANGED <<token, input, res, src, short, tokenBuffer, bufidx, buflen, increase>>
    /\ UNCHANGED callerVars

----------------------------------------------------------------------------
(* Helper runs: bytesToUint16 and bytesToUint32 applied to a byte slice.   *)

\* the byte values of the slices handed to the helpers
ConvBytes == {\h00, \h01, \h80, \hff}

\* the longest slice handed to the helpers
MaxConv == 5

\* every slice of at most MaxConv bytes over ConvBytes
ConvInputs == UNION {[1 .. n -> ConvBytes] : n \in 0 .. MaxConv}

InitConvert ==
    /\ input \in ConvInputs
    /\ token = <<>>
    /\ res = NoResult
    /\ src = <<>>
    /\ short = FALSE
    /\ tokenBuffer = <<>>
    /\ bufidx = 0
    /\ buflen = 0
    /\ increase = 0
    /\ pc = "convert"
    /\ ret = NoReturn
    /\ stream = <<>>
    /\ caller = "none"
    /\ cpc = "calling"
    /\ calls = <<>>
    /\ rec = NoRecord
    /\ gen = NoRecords
    /\ other = NoFrame

\* a call of bytesToUint16 and a call of bytesToUint32 on the slice
Convert ==
    /\ pc = "convert"
    /\ ret' = [kind |-> "converted", err |-> "none", tok |-> NoToken,
               u16 |-> bytesToUint16(input), u32 |-> bytesToUint32(input)]
    /\ pc' = "converted"
    /\ UNCHANGED <<token, input, res, src, short, tokenBuffer, bufidx, buflen, increase>>
    /\ UNCHANGED callerVars

----------------------------------------------------------------------------
(* Callers of TokenFromByteInput on one source: successive calls as in     *)
(* Test_small_example_token, the record assembler and the record           *)
(* generator.  The assembler and the generator are called by the tests;    *)
(* their steps follow sections 4.5 and 4.6 of the specification.           *)

\* scenario S4, the record of Test_small_example_token
RecordS4 ==
    <<\h14, \h00, \h00, \h00, \h38, \h0b, \haf, \hc8, \h00, \h00,
      \h5a, \h9a, \hc2, \he6, \h00, \h00, \h03, \h01,
      \h28, \h00, \h16, \h61, \h75, \h64, \h69, \h74, \h64, \h3a, \h3a,
      \h41, \h75, \h64, \h69, \h74, \h20, \h73, \h74, \h61, \h72, \h74,
      \h75, \h70, \h00,
      \h27, \h00, \h00, \h00, \h00, \h00,
      \h13, \hb1, \h05, \h00, \h00, \h00, \h38>>

\* scenario S5, the three records of Test_parsing_root_login
StreamS5 ==
    <<\h14, \h00, \h00, \h00, \h61, \h0b, \h18, \h0f, \h00, \h00,
      \h5a, \h9a, \hc2, \h1f, \h00, \h00, \h03, \h63,
      \h24, \hff, \hff, \hff, \hff, \h00, \h00, \h00, \h00, \h00, \h00, \h00, \h00,
      \h00, \h00, \h00, \h00, \h00, \h00, \h00, \h00, \h00, \h00, \h02, \hf2,
      \h00, \h00, \h02, \hf2, \h00, \h00, \h00, \h00, \h00, \h00, \h00, \h00,
      \h28, \h00, \h1a, \h73, \h75, \h63, \h63, \h65, \h73, \h73, \h66,
      \h75, \h6c, \h20, \h61, \h75, \h74, \h68, \h65, \h6e, \h74, \h69, \h63,
      \h61, \h74, \h69, \h6f, \h6e, \h00,
      \h27, \h00, \h00, \h00, \h00, \h00,
      \h13, \hb1, \h05, \h00, \h00, \h00, \h61,
      \h14, \h00, \h00, \h00, \h61, \h0b, \h80, \h20, \h00, \h00,
      \h5a, \h9a, \hc2, \h27, \h00, \h00, \h01, \hf9,
      \h7a, \h00, \h00, \h00, \h00, \h00, \h00, \h00, \h00, \h00, \h00, \h00, \h00,
      \h00, \h00, \h00, \h00, \h00, \h00, \h00, \h00, \h00, \h00, \h03, \h35,
      \h00, \h00, \h03, \h35, \h00, \h00, \h1c, \h65, \h00, \h00, \h00, \h04,
      \h5d, \hb8, \hd8, \h26,
      \h28, \h00, \h16, \h73, \h75, \h63, \h63, \h65, \h73, \h73, \h66,
      \h75, \h6c, \h20, \h6c, \h6f, \h67, \h69, \h6e, \h20, \h72, \h6f, \h6f,
      \h74, \h00,
      \h27, \h00, \h00, \h00, \h00, \h00,
      \h13, \hb1, \h05, \h00, \h00, \h00, \h61,
      \h14, \h00, \h00, \h00, \h39, \h0b, \haf, \hc9, \h00, \h00,
      \h5a, \h9a, \hc2, \h43, \h00, \h00, \h03, \ha1,
      \h28, \h00, \h17, \h61, \h75, \h64, \h69, \h74, \h64, \h3a, \h3a,
      \h41, \h75, \h64, \h69, \h74, \h20, \h73, \h68, \h75, \h74, \h64, \h6f,
      \h77, \h6e, \h00,
      \h27, \h00, \h00, \h00, \h00, \h00,
      \h13, \hb1, \h05, \h00, \h00, \h00, \h39>>

\* s with the bytes at offsets off, off + 1, ... replaced by those of b
Patch(s, off, b) ==
    [i \in 1 .. Len(s) |-> IF i > off /\ i <= off + Len(b) THEN b[i - off] ELSE s[i]]

\* a record of header, k iport tokens and trailer, its byte count in the
\* header and, plus d, in the trailer, with trailer magic <<m1, m2>>
IPortRecord(k, m1, m2, d) ==
    LET n      == 18 + 3 * k + 7
        iports == [i \in 1 .. 3 * k |-> <<\h2c, \h23, \h42>>[((i - 1) % 3) + 1]]
    IN  Patch(HeaderS1, 1, <<0, 0, 0, n>>) \o iports \o <<\h13, m1, m2, 0, 0, 0, n + d>>

\* the sources of the caller runs
StreamSources ==
    {<<>>, RecordS4, RecordS4 \o RecordS4, StreamS5,
     Patch(RecordS4, 50, <<0, 0>>), Patch(RecordS4, 55, <<\h39>>),
     SubSeq(RecordS4, 1, 18), SubSeq(RecordS4, 1, 30), SubSeq(RecordS4, 1, 55),
     <<\h2c, \h23, \h42>> \o RecordS4,
     HeaderS1 \o <<\h2c, \h23, \h42, \h2c, \h00, \h50>>,
     IPortRecord(0, \hb1, \h05, 0), IPortRecord(2, \hb1, \h05, 0),
     IPortRecord(2, \h00, \h00, 0), IPortRecord(2, \hb1, \h05, 1),
     IPortRecord(1, \hb1, \h05, 0) \o IPortRecord(2, \hb1, \h05, 0)}

InitStream ==
    /\ stream \in StreamSources
    /\ caller \in {"tokens", "record", "generator"}
    /\ short \in BOOLEAN
    /\ token = stream
    /\ src = stream
    /\ input = <<>>
    /\ res = NoResult
    /\ tokenBuffer = <<0>>
    /\ bufidx = 0
    /\ buflen = 0
    /\ increase = 0
    /\ pc = "read_id"
    /\ ret = NoReturn
    /\ cpc = "calling"
    /\ calls = <<>>
    /\ rec = NoRecord
    /\ gen = NoRecords
    /\ other = NoFrame

\* a further call of TokenFromByteInput on the same source
BeginCall ==
    /\ token' = src
    /\ input' = <<>>
    /\ res' = NoResult
    /\ tokenBuffer' = <<0>>
    /\ bufidx' = 0
    /\ buflen' = 0
    /\ increase' = 0
    /\ pc' = "read_id"
    /\ ret' = NoReturn
    /\ UNCHANGED <<src, short>>

\* no further call
NoCall ==
    UNCHANGED <<token, input, res, src, short, tokenBuffer, bufidx, buflen, increase, pc, ret>>

\* the call that has just returned: its result, the offset of the source at
\* which it started and the number of bytes it took from the source
thisCall ==
    [ret |-> ret, at |-> Len(stream) - Len(token), used |-> Len(token) - Len(src)]

\* the number of calls Test_small_example_token makes on its source
MaxCalls == 4

\* Test_small_example_token: a call follows a call, whatever it returned,
\* until MaxCalls calls are made; a runtime failure of a call ends the test
NextToken ==
    /\ caller \in {"tokens", "pair"} /\ cpc = "calling" /\ pc = "done"
    /\ calls' = Append(calls, thisCall)
    /\ IF ret.kind # "panic" /\ Len(calls) + 1 < MaxCalls
       THEN BeginCall /\ UNCHANGED cpc
       ELSE NoCall /\ cpc' = "ended"
    /\ UNCHANGED <<stream, caller, rec, gen, other>>

\* the tags a record starts with, and the tag and magic that end it
HeaderTags == {\h14, \h74, \h15, \h79}
TrailerTag == \h13
TrailerMagic == 45317

\* what the record assembler returns without a record
recordError(kind, err) ==
    [kind |-> kind, err |-> err, header |-> NoToken, tokens |-> <<>>, trailer |-> NoToken]

\* the tokens of the calls finished so far
tokensOf(cs) == [i \in 1 .. Len(cs) |-> cs[i].ret.tok]

\* the record assembler, on the return of one call of TokenFromByteInput:
\* the first token has to be a header, tokens are collected until a trailer
\* arrives, and the trailer has to carry the magic and the header's byte
\* count; an error of the call ends the assembly, end of input before the
\* first token is the end of the records
RecordStep ==
    /\ caller \in {"record", "generator"} /\ cpc = "calling" /\ pc = "done"
    /\ IF ret.kind = "panic"
       THEN /\ rec' = recordError("panic", ret.err)
            /\ cpc' = "rec_done" /\ NoCall /\ UNCHANGED calls
       ELSE IF ret.kind = "error"
       THEN /\ rec' = IF calls = <<>> /\ ret.err = "EOF"
                      THEN recordError("eof", "none")
                      ELSE recordError("error", ret.err)
            /\ cpc' = "rec_done" /\ NoCall /\ UNCHANGED calls
       ELSE IF calls = <<>> /\ ret.tok.TokenID \notin HeaderTags
       THEN /\ rec' = recordError("error", "no_header")
            /\ cpc' = "rec_done" /\ NoCall /\ UNCHANGED calls
       ELSE IF calls # <<>> /\ ret.tok.TokenID = TrailerTag
       THEN /\ rec' = IF /\ ret.tok.TrailerMagic = TrailerMagic
                         /\ ret.tok.RecordByteCount = calls[1].ret.tok.RecordByteCount
                      THEN [kind |-> "record", err |-> "none",
                            header  |-> calls[1].ret.tok,
                            tokens  |-> tokensOf(Tail(calls)),
                            trailer |-> ret.tok]
                      ELSE recordError("error", "trailer_mismatch")
            /\ cpc' = "rec_done" /\ NoCall /\ UNCHANGED calls
       ELSE /\ calls' = Append(calls, thisCall)
            /\ BeginCall /\ UNCHANGED <<rec, cpc>>
    /\ UNCHANGED <<stream, caller, gen, other>>

\* the record generator, on the return of the record assembler: a record is
\* yielded and the next one assembled; end of input between records ends the
\* sequence, any error ends it with that error
Pull ==
    /\ caller = "generator" /\ cpc = "rec_done"
    /\ IF rec.kind = "record"
       THEN /\ gen' = [gen EXCEPT !.yielded = Append(@, rec)]
            /\ calls' = <<>>
            /\ rec' = NoRecord
            /\ cpc' = "calling"
            /\ BeginCall
       ELSE /\ gen' = [gen EXCEPT !.end = IF rec.kind = "eof" THEN "clean" ELSE rec.kind]
            /\ cpc' = "gen_done"
            /\ NoCall /\ UNCHANGED <<calls, rec>>
    /\ UNCHANGED <<stream, caller, other>>

----------------------------------------------------------------------------
(* Two parsers, each reading the tokens of a source of its own, their      *)
(* steps interleaved.  Everything a call of TokenFromByteInput reads and   *)
(* writes is a local of the call or the io.Reader it was given; the        *)
(* package declares no variable.  The variables above hold the frame of    *)
(* the parser that runs, other holds the frame of the parser that waits.   *)

\* the sources of the two parsers
PairSources ==
    {<<>>, <<\h2c, \h23, \h42>>, <<\h2c, \h00>>,
     HeaderS1 \o <<\h2c, \h23, \h42>>,
     HeaderS1 \o <<\h2c, \h00, \h50, \h13, \hb1, \h05, \h00, \h00, \h00, \h1f>>,
     HeaderS1 \o <<\h28, \h00, \h02, \h41, \h00>>}

\* the frame of a parser about to make its first call on the source b
newFrame(i, b) ==
    [id |-> i, mid |-> FALSE, token |-> b, input |-> <<>>, res |-> NoResult, src |-> b,
     tokenBuffer |-> <<0>>, bufidx |-> 0, buflen |-> 0, increase |-> 0,
     pc |-> "read_id", ret |-> NoReturn, stream |-> b, calls |-> <<>>, cpc |-> "calling"]

InitPair ==
    /\ stream \in PairSources
    /\ \E b \in PairSources : other = newFrame(2, b)
    /\ caller = "pair"
    /\ short = FALSE
    /\ token = stream
    /\ src = stream
    /\ input = <<>>
    /\ res = NoResult
    /\ tokenBuffer = <<0>>
    /\ bufidx = 0
    /\ buflen = 0
    /\ increase = 0
    /\ pc = "read_id"
    /\ ret = NoReturn
    /\ cpc = "calling"
    /\ calls = <<>>
    /\ rec = NoRecord
    /\ gen = NoRecords

\* positions inside a call, after its first read and before its return
midCall(p) == p \in {"size", "loop", "final", "decode"}

\* the token buffer a parser finds when it runs again, given the buffer it
\* had when it stopped and the buffer the other parser has now, were
\* tokenBuffer a variable of the package
packageTokenBuffer(own, others) == others

\* the token buffer a parser finds when it runs again: tokenBuffer is a
\* local of the call, so it is the buffer the parser had when it stopped
resumedTokenBuffer(own, others) == own

\* the scheduler stops the running parser and lets the other one run
Switch ==
    /\ caller = "pair"
    /\ other' = [id |-> 3 - other.id,
                 mid |-> other.mid \/ (midCall(pc) /\ midCall(other.pc)),
                 token |-> token, input |-> input, res |-> res, src |-> src,
                 tokenBuffer |-> tokenBuffer, bufidx |-> bufidx, buflen |-> buflen,
                 increase |-> increase, pc |-> pc, ret |-> ret,
                 stream |-> stream, calls |-> calls, cpc |-> cpc]
    /\ token' = other.token
    /\ input' = other.input
    /\ res' = other.res
    /\ src' = other.src
    /\ tokenBuffer' = resumedTokenBuffer(other.tokenBuffer, tokenBuffer)
    /\ bufidx' = other.bufidx
    /\ buflen' = other.buflen
    /\ increase' = other.increase
    /\ pc' = other.pc
    /\ ret' = other.ret
    /\ stream' = other.stream
    /\ calls' = other.calls
    /\ cpc' = other.cpc
    /\ UNCHANGED <<short, caller, rec, gen>>

----------------------------------------------------------------------------

Init == InitOracle \/ InitReader \/ InitParse \/ InitConvert \/ InitStream \/ InitPair

Next ==
    \/ Determine
    \/ ReadTokenID \/ AskOracle \/ LoopRead \/ FinalRead \/ Decode
    \/ ParseHeader
    \/ Convert
    \/ NextToken \/ RecordStep \/ Pull
    \/ Switch

Spec == Init /\ [][Next]_vars

----------------------------------------------------------------------------
(* Properties of the size oracle.                                          *)

\* determineTokenSize has answered for the prefix in input
asked == res # NoResult /\ ret = NoReturn

\* asked, in an oracle run, for a prefix that holds a tag byte
askedTag(t) == asked /\ pc = "oracle" /\ Len(input) >= 1 /\ At(input, 0) = t

\* the size the token table gives for a fixed-length tag
TabulatedSize(t) ==
    CASE t = \h13 -> 7   [] t = \h14 -> 18  [] t = \h22 -> 6   [] t = \h24 -> 37
      [] t = \h26 -> 37  [] t = \h27 -> 6   [] t = \h2a -> 5   [] t = \h2b -> 21
      [] t = \h2c -> 3   [] t = \h2e -> 9   [] t = \h2f -> 5   [] t = \h32 -> 29
      [] t = \h3e -> 29  [] t = \h52 -> 9   [] t = \h72 -> 10  [] t = \h73 -> 33
      [] t = \h74 -> 26  [] t = \h75 -> 41  [] t = \h77 -> 45  [] t = \h7e -> 18

\* C1: for each of the twenty fixed-length tags, the oracle on any prefix
\* that starts with the tag (the tag byte alone included) returns the
\* tabulated size, no request for more bytes and no error.
C1_FixedSizes ==
    \A t \in {\h13, \h14, \h22, \h24, \h26, \h27, \h2a, \h2b, \h2c, \h2e,
              \h2f, \h32, \h3e, \h52, \h72, \h73, \h74, \h75, \h77, \h7e} :
        askedTag(t) => res = [size |-> TabulatedSize(t), moreBytes |-> 0, err |-> "none"]

\* the expanded in_addr tag alone, and a header tag followed by more bytes
\* than its size, have been sized
C1_Witness ==
    \/ askedTag(\h7e) /\ Len(input) = 1 /\ res.size = 18
    \/ askedTag(\h14) /\ Len(input) > 18 /\ res.size = 18

\* D_t, the prefix length at which the length, count or address-type field
\* of a variable-length token ends, by the layout of the token on the wire:
\* the 4-byte address type of the expanded 64-bit header lies at offsets
\* 10..13, the 4-byte address length of the expanded 32-bit subject and
\* process tokens at offsets 33..36, that of the expanded 64-bit process
\* token at 37..40.  For 0x15 the claim gives the request for the lone tag
\* byte, 14, and with it D_t = 15.
FieldEnd(t) ==
    CASE t = \h11 -> 11  [] t = \h15 -> 15  [] t = \h21 -> 4   [] t = \h23 -> 3
      [] t = \h25 -> 3   [] t = \h28 -> 3   [] t = \h2d -> 8   [] t = \h34 -> 3
      [] t = \h3c -> 5   [] t = \h3d -> 5   [] t = \h60 -> 3   [] t = \h71 -> 12
      [] t = \h79 -> 14  [] t = \h7a -> 37  [] t = \h7b -> 37  [] t = \h7c -> 38
      [] t = \h7d -> 41  [] t = \h7f -> 7

\* the variable-length tags of the token table
LayoutTags == VariableTags \cup {\h7b, \h7d}

\* C2: on the empty input the oracle asks for one byte; on a prefix of
\* length n, 1 <= n < D_t, of a variable-length token it asks for D_t - n
\* bytes, with size 0 and no error (10 for a lone 0x11, 14 for 0x15, ...).
C2_NeedMoreUpToField ==
    /\ (asked /\ pc = "oracle" /\ Len(input) = 0)
          => res = [size |-> 0, moreBytes |-> 1, err |-> "none"]
    /\ \A t \in LayoutTags :
          (askedTag(t) /\ Len(input) < FieldEnd(t))
             => res = [size |-> 0, moreBytes |-> FieldEnd(t) - Len(input), err |-> "none"]
    /\ \A t \in {\h11} : (askedTag(t) /\ Len(input) = 1) => res.moreBytes = 10
    /\ \A t \in {\h15} : (askedTag(t) /\ Len(input) = 1) => res.moreBytes = 14
    /\ \A t \in {\h21} : (askedTag(t) /\ Len(input) = 1) => res.moreBytes = 3
    /\ \A t \in {\h23, \h25, \h28, \h34, \h60} :
          (askedTag(t) /\ Len(input) = 1) => res.moreBytes = 2
    /\ \A t \in {\h2d} : (askedTag(t) /\ Len(input) = 1) => res.moreBytes = 7
    /\ \A t \in {\h3c, \h3d} : (askedTag(t) /\ Len(input) = 1) => res.moreBytes = 4
    /\ \A t \in {\h7c} : (askedTag(t) /\ Len(input) = 1) => res.moreBytes = 37
    /\ \A t \in {\h7f} : (askedTag(t) /\ Len(input) = 1) => res.moreBytes = 6

\* one of the three outcomes of the oracle
Outcome(r) ==
    \/ r.size > 0 /\ r.moreBytes = 0 /\ r.err = "none"
    \/ r.size = 0 /\ r.moreBytes > 0 /\ r.err = "none"
    \/ r.size = 0 /\ r.moreBytes = 0 /\ r.err # "none"

\* the image holds the whole token: for the counted arrays of strings, as
\* many NUL bytes after the count field as the count says
holdsToken ==
    /\ Len(token) >= 5
    /\ token[1] = \h25 =>
          countNul(Slice(token, 3, Len(token))) >= 256 * At(token, 1) + At(token, 2)
    /\ token[1] \in {\h3c, \h3d} =>
          /\ At(token, 1) = 0 /\ At(token, 2) = 0
          /\ countNul(Slice(token, 5, Len(token))) >= 256 * At(token, 3) + At(token, 4)

\* the answer the oracle ends with when it is given the first n bytes of
\* tok and then, as long as it asks for more bytes and tok holds them, the
\* prefix longer by the bytes it asked for
RECURSIVE lastAnswer(_, _)
lastAnswer(tok, n) ==
    LET r == determineTokenSize(SubSeq(tok, 1, n))
    IN  IF r.moreBytes > 0 /\ n + r.moreBytes <= Len(tok)
        THEN lastAnswer(tok, n + r.moreBytes)
        ELSE r

\* C3: every answer of the oracle is one of the three outcomes, never size 0
\* with no request and no error; and when the bytes asked for are delivered
\* again and again from an image holding the whole token, the answers end in
\* a positive size or an error: while the oracle asks for more, the bytes
\* asked for are there to deliver.
C3_ThreeOutcomes ==
    /\ asked => Outcome(res)
    /\ (asked /\ pc = "oracle" /\ holdsToken /\ res.moreBytes > 0)
          => /\ Len(input) + res.moreBytes <= Len(token)
             /\ lastAnswer(token, Len(input)).moreBytes = 0
             /\ Outcome(lastAnswer(token, Len(input)))

\* a path-attr token with three strings was sized once its third NUL arrived
C3_Witness ==
    /\ askedTag(\h25) /\ Len(input) > 6
    /\ At(input, 1) = 0 /\ At(input, 2) = 3 /\ At(input, 3) # 0
    /\ res.size = Len(input)

\* C4: for a first byte that is not a tag of the token table the oracle
\* returns an error with size 0 and no request for more bytes, and
\* TokenFromByteInput on a source starting with such a byte returns that
\* error ("can't determine the size of the given token (type)") and no token.
C4_UnknownTag ==
    /\ (asked /\ pc = "oracle" /\ Len(input) >= 1 /\ At(input, 0) \notin TableTags)
          => res = [size |-> 0, moreBytes |-> 0, err |-> "unknown_token"]
    /\ (pc \notin {"oracle", "read_id", "size"} /\ Len(token) >= 1
          /\ At(token, 0) \notin TableTags)
          => /\ pc = "done"
             /\ ret = [kind |-> "error", err |-> "unknown_token", tok |-> NoToken]

\* TokenFromByteInput has returned on the one-byte source {0x00}
C4_Witness ==
    /\ pc = "done" /\ token = <<0>>
    /\ ret.kind = "error" /\ ret.err = "unknown_token"

\* the address-length / address-type field of the address-discriminated
\* tokens: <<offset, width, prefix length from which the oracle decides>>
AddrField(t) ==
    CASE t = \h15 -> <<10, 4, 15>>
      [] t = \h79 -> <<10, 4, 15>>
      [] t = \h7a -> <<33, 1, 34>>
      [] t = \h7b -> <<33, 4, 37>>
      [] t = \h7c -> <<37, 1, 38>>
      [] t = \h7d -> <<37, 4, 41>>
      [] t = \h7f -> <<5, 2, 7>>

\* the field of width w at offset off of s holds the value a < 256
fieldIs(s, off, w, a) ==
    /\ At(s, off + w - 1) = a
    /\ \A i \in off .. off + w - 2 : At(s, i) = 0

\* C5: for the tags 0x15, 0x79, 0x7a, 0x7b, 0x7c, 0x7d and 0x7f, on a prefix
\* that contains the address discriminator the oracle returns an error (no
\* size, no request) when its value is neither 4 nor 16, and no error when it
\* is 4 or 16.
C5_AddressDiscriminator ==
    \A t \in {\h15, \h79, \h7a, \h7b, \h7c, \h7d, \h7f} :
        (askedTag(t) /\ Len(input) >= AddrField(t)[3])
           => LET f == AddrField(t)
              IN  IF fieldIs(input, f[1], f[2], 4) \/ fieldIs(input, f[1], f[2], 16)
                  THEN res.err = "none"
                  ELSE res.err # "none" /\ res.size = 0 /\ res.moreBytes = 0

\* the unsigned 16-bit value at offsets off, off + 1
Length16(s, off) == 256 * At(s, off) + At(s, off + 1)

\* C6: for the counted-string tags the oracle on a prefix containing the
\* 16-bit length field L returns fixed prefix + L + 1, L never wrapped:
\* 12+L for 0x11, 4+L for 0x23, 0x28, 0x60, 9+L for 0x2d, 13+L for 0x71.
C6_CountedStringPlusNul ==
    /\ (askedTag(\h11) /\ Len(input) >= 11) => res = sized(12 + Length16(input, 9))
    /\ \A t \in {\h23, \h28, \h60} :
          (askedTag(t) /\ Len(input) >= 3) => res = sized(4 + Length16(input, 1))
    /\ (askedTag(\h2d) /\ Len(input) >= 8) => res = sized(9 + Length16(input, 6))
    /\ (askedTag(\h71) /\ Len(input) >= 12) => res = sized(13 + Length16(input, 10))

\* a file token declaring the longest file name has been sized
C6_Witness ==
    /\ askedTag(\h11) /\ Len(input) >= 11
    /\ At(input, 9) = 255 /\ At(input, 10) = 255
    /\ res.size = 12 + 65535

\* C7: for path, text, zonename and arg-32 tokens the declared length L
\* counts the terminating NUL, so the size is the fixed prefix plus L and
\* nothing more: 3+L for 0x23, 0x28, 0x60 and 8+L for 0x2d.
C7_LengthCountsNul ==
    /\ \A t \in {\h23, \h28, \h60} :
          (askedTag(t) /\ Len(input) >= 3) => res = sized(3 + Length16(input, 1))
    /\ (askedTag(\h2d) /\ Len(input) >= 8) => res = sized(8 + Length16(input, 6))

\* C8: for an address discriminator a in {4, 16} the size is the fixed part
\* plus the address width: 22+a for 0x15, 31+a for 0x79 (4-byte field at
\* offsets 10..13), 38+a for 0x7c (byte at offset 37), 11+2a for 0x7f
\* (2-byte field at offsets 5..6).
C8_AddressWidth ==
    \A a \in {4, 16} :
        /\ (askedTag(\h15) /\ Len(input) >= 15 /\ fieldIs(input, 10, 4, a))
              => res = sized(22 + a)
        /\ (askedTag(\h79) /\ Len(input) >= 15 /\ fieldIs(input, 10, 4, a))
              => res = sized(31 + a)
        /\ (askedTag(\h7c) /\ Len(input) >= 38 /\ fieldIs(input, 37, 1, a))
              => res = sized(38 + a)
        /\ (askedTag(\h7f) /\ Len(input) >= 7 /\ fieldIs(input, 5, 2, a))
              => res = sized(11 + 2 * a)

\* an expanded socket token with IPv6 addresses has been sized
C8_Witness ==
    /\ askedTag(\h7f) /\ Len(input) >= 7
    /\ fieldIs(input, 5, 2, 16) /\ res.size = 43

\* C9: for tag 0x7a the oracle given only the tag byte asks for 36 more
\* bytes; with terminal address length 4 in the last byte of the 4-byte
\* field at offsets 33..36 the size is 41, no request, no error; with length
\* 0 the oracle returns an error.
C9_ExpandedSubject32 ==
    /\ (askedTag(\h7a) /\ Len(input) = 1) => res = needMore(36)
    /\ (askedTag(\h7a) /\ Len(input) >= 37 /\ fieldIs(input, 33, 4, 4))
          => res = sized(41)
    /\ (askedTag(\h7a) /\ Len(input) >= 37 /\ fieldIs(input, 33, 4, 0))
          => res.err # "none"

\* C10: for 0x21 the size is 4 + unit-size * unit-count for all byte values,
\* the product not truncated to 8 bits; for 0x34 it is 3 + 4 * N for every
\* 16-bit count N; neither depends on the bytes after the count fields.
C10_ProductAndGroups ==
    /\ (askedTag(\h21) /\ Len(input) >= 4)
          => res = sized(4 + At(input, 2) * At(input, 3))
    /\ (askedTag(\h34) /\ Len(input) >= 3)
          => res = sized(3 + 4 * Length16(input, 1))

\* the largest arbitrary-data token and the largest groups token were sized
C10_Witness ==
    \/ /\ askedTag(\h21) /\ Len(input) >= 4
       /\ At(input, 2) = 255 /\ At(input, 3) = 255 /\ res.size = 65029
    \/ /\ askedTag(\h34) /\ Len(input) >= 3
       /\ Length16(input, 1) = 65535 /\ res.size = 262143

\* <<offset, width>> of the count field of the counted arrays of strings
CountField(t) == IF t = \h25 THEN <<1, 2>> ELSE <<1, 4>>

\* the unsigned big-endian value of the w bytes of s at offset off
ValueAt(s, off, w) ==
    IF w = 2 THEN 256 * At(s, off) + At(s, off + 1)
    ELSE ((At(s, off) * 256 + At(s, off + 1)) * 256 + At(s, off + 2)) * 256 + At(s, off + 3)

\* the offset just past the c-th NUL byte of s at or after offset from
\* (from itself for c = 0)
PastNul(s, from, c) ==
    CHOOSE p \in from .. Len(s) :
        /\ countNul(Slice(s, from, p)) >= c
        /\ \A q \in from .. p - 1 : countNul(Slice(s, from, q)) < c

\* C11: for the counted arrays of strings 0x25 (2-byte count C), 0x3c and
\* 0x3d (4-byte count C) the oracle asks for more bytes while fewer than C
\* NUL bytes follow the count field, and otherwise returns the byte length of
\* the token, the offset just past the C-th NUL, for every prefix holding
\* that NUL, longer ones included; with C = 0 the size is 3 or 5.
C11_CountedStrings ==
    \A t \in {\h25, \h3c, \h3d} :
        LET f   == CountField(t)
            end == f[1] + f[2]
        IN  (askedTag(t) /\ Len(input) >= end)
               => LET c == ValueAt(input, f[1], f[2])
                  IN  IF countNul(Slice(input, end, Len(input))) < c
                      THEN res.moreBytes > 0 /\ res.size = 0 /\ res.err = "none"
                      ELSE res = sized(PastNul(input, end, c))

\* the highest offset determineTokenSize reads in the case of tag t once the
\* length test of the case has passed
decisionReads(t) ==
    CASE t = \h11 -> 10  [] t = \h15 -> 13  [] t = \h21 -> 3   [] t = \h23 -> 2
      [] t = \h25 -> 2   [] t = \h28 -> 2   [] t = \h2d -> 7   [] t = \h34 -> 2
      [] t = \h3c -> 4   [] t = \h3d -> 4   [] t = \h60 -> 2   [] t = \h71 -> 11
      [] t = \h79 -> 13  [] t = \h7a -> 33  [] t = \h7c -> 37  [] t = \h7f -> 6

\* the offset of the last byte the oracle's next decision reads, for a
\* prefix in for which it asked for more bytes: the tag byte, the last byte
\* of the length, count or discriminator field, or, when the NUL bytes of a
\* counted array of strings are counted, the first byte not yet delivered
NextDecisionReads(in) ==
    IF Len(in) = 0 THEN 0
    ELSE IF At(in, 0) \in {\h25, \h3c, \h3d} /\ Len(in) > decisionReads(At(in, 0))
    THEN Len(in)
    ELSE decisionReads(At(in, 0))

\* C12: when the oracle asks for k > 0 more bytes for a prefix of length n,
\* n + k is the smallest prefix length at which the next decision can be
\* made: the next decision reads the byte at offset n + k - 1.  For every
\* variable-length tag, the expanded headers 0x15 and 0x79 (address type at
\* offsets 10..13) included.
C12_SmallestRequest ==
    (asked /\ pc = "oracle" /\ res.moreBytes > 0)
        => Len(input) + res.moreBytes - 1 = NextDecisionReads(input)

\* the sizes the test table gives for the three socket tokens
SocketSize(t) == CASE t = \h80 -> 9 [] t = \h81 -> 21 [] t = \h82 -> 9

\* C13: the oracle given only the tag byte returns size 9 for the inet32
\* socket token (0x80), 21 for the inet128 socket token (0x81) and 9 for the
\* UNIX-domain socket token (0x82), with no request for more bytes and no
\* error.
C13_SocketTokens ==
    \A t \in {\h80, \h81, \h82} :
        (askedTag(t) /\ Len(input) = 1) => res = sized(SocketSize(t))

----------------------------------------------------------------------------
(* Properties of TokenFromByteInput.  In a reader run token keeps the      *)
(* bytes the source held when TokenFromByteInput was called.               *)

\* TokenFromByteInput has returned
returned == pc = "done"

\* the number of bytes TokenFromByteInput has taken from the source
consumed == Len(token) - Len(src)

\* C14: TokenFromByteInput on a source whose next three bytes are 0x2c, hi,
\* lo returns, for all hi and lo, an IPortToken with tag 0x2c and port
\* number 256 * hi + lo, without error, having consumed exactly those three
\* bytes.
C14_IPortToken ==
    (returned /\ Len(token) >= 3 /\ At(token, 0) = \h2c)
        => /\ ret = [kind |-> "token", err |-> "none",
                     tok  |-> [TokenID |-> \h2c,
                               PortNumber |-> 256 * At(token, 1) + At(token, 2)]]
           /\ consumed = 3

\* the big-endian value of the four bytes of s at offset off, as a uint32
BigEndian32(s, off) == <<Length16(s, off), Length16(s, off + 2)>>

\* C15: ParseHeaderToken32bit on an 18-byte slice whose first byte is 0x14
\* returns without error tag 0x14, record byte count = bytes 1..4, version =
\* byte 5, event type = bytes 6..7, event modifier = bytes 8..9, seconds =
\* bytes 10..13, nanoseconds = bytes 14..17, all read big-endian (scenario
\* S1: 56, 0x0b, 0xc800, 0x005a, 2596464128, 196904); on a slice of another
\* length, or with another first byte, it returns an error.
C15_ParseHeader32 ==
    /\ pc = "parsed" =>
          IF Len(input) = 18 /\ At(input, 0) = \h14
          THEN /\ ret.kind = "token" /\ ret.err = "none"
               /\ ret.tok = [TokenID         |-> \h14,
                             RecordByteCount |-> BigEndian32(input, 1),
                             VersionNumber   |-> At(input, 5),
                             EventType       |-> Length16(input, 6),
                             EventModifier   |-> Length16(input, 8),
                             Seconds         |-> BigEndian32(input, 10),
                             NanoSeconds     |-> BigEndian32(input, 14)]
          ELSE ret.kind = "error" /\ ret.err # "none"
    /\ (pc = "parsed" /\ input = HeaderS1) =>
          ret.tok = [TokenID         |-> \h14,
                     RecordByteCount |-> u32(56),
                     VersionNumber   |-> \h0b,
                     EventType       |-> 51200,
                     EventModifier   |-> 90,
                     Seconds         |-> <<39618, 58880>>,
                     NanoSeconds     |-> u32(196904)]

\* the header of scenario S1 has been parsed
C15_Witness == pc = "parsed" /\ input = HeaderS1 /\ ret.kind = "token"

\* C16: for every token value returned by a decoder or by
\* TokenFromByteInput, the TokenID of the value equals the first byte of the
\* slice, or the first byte read from the source for that token.
C16_TagIsFirstByte ==
    /\ (pc = "parsed" /\ ret.kind = "token") => ret.tok.TokenID = At(input, 0)
    /\ (returned /\ ret.kind = "token") => ret.tok.TokenID = At(token, 0)

\* TokenFromByteInput has returned an IPortToken, and a header token
C16_Witness ==
    /\ returned /\ ret.kind = "token"
    /\ \/ At(token, 0) = \h2c /\ ret.tok.PortNumber = 9026
       \/ token = HeaderS1 /\ ret.tok.EventType = 51200

\* the source of a reader run held at least one whole token of tag t: the
\* longest image, a length, count or address-type field of 4, and the
\* tabulated size within the image for a fixed-length tag
WholeToken(t) ==
    /\ Len(token) = MaxLen
    /\ At(token, 0) = t
    /\ wireField(t)[2] > 0 => fieldIs(token, wireField(t)[1], wireField(t)[2], 4)
    /\ t \in FixedTags => TabulatedSize(t) <= MaxLen

\* C17: for every tag of the token table, TokenFromByteInput on a source
\* holding a well-formed token of that tag returns a typed value of the
\* matching variant and no error (a TextToken for 0x28, a ReturnToken32bit
\* for 0x27, a TrailerToken for 0x13, an ExpandedProcessToken32bit for 0x7b
\* with address type 4 or 16).
C17_EveryTagDecoded ==
    \A t \in TableTags :
        (returned /\ WholeToken(t))
            => ret.kind = "token" /\ ret.err = "none" /\ ret.tok.TokenID = t

\* C18: TokenFromByteInput on a source whose next token carries an address
\* discriminator that is neither 4 nor 16 (0x7a with length byte 0, 0x15
\* with address type 0x00010203, 0x7b with address type 0x11, ...) returns
\* the size oracle's error about the discriminator and no token: that error
\* is neither dropped nor replaced by another failure.
C18_OracleErrorSurfaces ==
    \A t \in {\h15, \h79, \h7a, \h7b, \h7c, \h7d, \h7f} :
        LET f == AddrField(t)
        IN  (/\ returned /\ Len(token) = MaxLen /\ At(token, 0) = t
             /\ ~fieldIs(token, f[1], f[2], 4)
             /\ ~fieldIs(token, f[1], f[2], 16))
                => ret = returnError("invalid_address")

\* the counted-string tags
StringTags == {\h11, \h23, \h28, \h2d, \h60, \h71}

\* the source of a reader run ended after the tag byte and before the last
\* byte of its token: a fixed-length token cut short, or a counted string cut
\* inside its length field or inside the string
CutShort ==
    /\ Len(token) >= 1
    /\ LET t == At(token, 0)
       IN  \/ t \in FixedTags /\ Len(token) < fixedTokenSize(t)
           \/ t \in StringTags /\ Len(token) < FieldEnd(t)
           \/ /\ t \in StringTags /\ Len(token) >= FieldEnd(t)
              /\ Len(token) < FieldEnd(t) + Length16(token, FieldEnd(t) - 2)

\* C19: TokenFromByteInput on a source already at end-of-input returns the
\* end-of-input condition of the source and no token; when the source ends
\* after the tag byte and before the last byte of the token it returns an
\* error and no token, never a partially filled token.
C19_EndOfInput ==
    /\ (returned /\ token = <<>>) => ret = returnError("EOF")
    /\ (returned /\ CutShort) => ret.kind = "error" /\ ret.tok = NoToken

\* C20: when the source answers a read with fewer bytes than asked for
\* although more bytes follow, TokenFromByteInput keeps reading until the
\* count asked for is delivered, and returns the token it returns on a
\* source that delivers the same bytes in a single read, for the bytes the
\* oracle asks for and for the remaining bytes of the token alike.
C20_ShortReads ==
    (returned /\ TokenFromFullReads(token).kind = "token")
        => ret = TokenFromFullReads(token)

\* TokenFromFullReads is what the reader returns when no read is short
FullReadsAgree == (returned /\ ~short) => ret = TokenFromFullReads(token)

----------------------------------------------------------------------------
(* Properties of the callers of TokenFromByteInput.                        *)

\* the tags of the tokens the finished calls returned, in the order of the
\* calls
RECURSIVE returnedTags(_)
returnedTags(cs) ==
    IF cs = <<>> THEN <<>>
    ELSE IF Head(cs).ret.kind = "token"
         THEN <<Head(cs).ret.tok.TokenID>> \o returnedTags(Tail(cs))
         ELSE returnedTags(Tail(cs))

\* C21: successive calls of TokenFromByteInput on one source return the
\* tokens in wire order; each successful call consumes exactly the number of
\* bytes the size oracle determines for its token, so the next call starts at
\* the tag byte of the next token; for scenario S4 header, text, return and
\* trailer are returned in this order.
C21_WireOrder ==
    /\ \A i \in 1 .. Len(calls) :
          calls[i].ret.kind = "token"
             => /\ calls[i].ret.tok.TokenID = At(stream, calls[i].at)
                /\ calls[i].used =
                      determineTokenSize(Slice(stream, calls[i].at,
                                               calls[i].at + calls[i].used)).size
    /\ \A i \in 1 .. Len(calls) - 1 : calls[i + 1].at = calls[i].at + calls[i].used
    /\ (caller = "tokens" /\ cpc = "ended" /\ stream = RecordS4)
          => returnedTags(calls) = <<\h14, \h28, \h27, \h13>>

\* the well-formed records among the sources, each a source of its own
WellFormedRecords ==
    {RecordS4, IPortRecord(0, \hb1, \h05, 0), IPortRecord(2, \hb1, \h05, 0)}

\* the size the oracle determines for the token of b that starts at offset
\* off, given the bytes of b from there on
oracleSizeAt(b, off) == determineTokenSize(Slice(b, off, Len(b))).size

\* C22: for every well-formed record the number of bytes consumed from the
\* source while its tokens are read one after another, the sum of the sizes
\* the oracle determines for header, intermediate tokens and trailer, equals
\* the record byte count of the header and of the trailer; for scenario S4
\* the record has exactly two intermediate tokens and 56 bytes are consumed.
C22_RecordByteCount ==
    /\ (caller = "record" /\ cpc = "rec_done" /\ stream \in WellFormedRecords)
          => /\ rec.kind = "record"
             /\ rec.header.RecordByteCount = u32(Len(stream) - Len(src))
             /\ rec.trailer.RecordByteCount = u32(Len(stream) - Len(src))
             /\ src = <<>>
             /\ stream = RecordS4 => Len(rec.tokens) = 2 /\ Len(stream) - Len(src) = 56
    /\ (caller = "record" /\ stream = RecordS4)
          => oracleSizeAt(RecordS4, 0) + oracleSizeAt(RecordS4, 18)
               + oracleSizeAt(RecordS4, 43) + oracleSizeAt(RecordS4, 49) = 56

\* the sources that hold one record whose trailer has magic 0x0000, or a
\* byte count other than the header's
CorruptTrailers ==
    {Patch(RecordS4, 50, <<0, 0>>), Patch(RecordS4, 55, <<\h39>>),
     IPortRecord(2, \h00, \h00, 0), IPortRecord(2, \hb1, \h05, 1)}

\* C23: the record assembler returns a record only when the first token is
\* a header variant (0x14, 0x74, 0x15, 0x79), the trailer's magic is 0xb105
\* and the trailer's record byte count equals the header's; a trailer with
\* magic 0x0000, or with a byte count different from the header's, makes it
\* return a trailer-mismatch error and no record.
C23_TrailerChecked ==
    /\ rec.kind = "record"
          => /\ rec.header.TokenID \in HeaderTags
             /\ rec.trailer.TrailerMagic = 45317
             /\ rec.trailer.RecordByteCount = rec.header.RecordByteCount
    /\ (caller = "record" /\ cpc = "rec_done" /\ stream \in CorruptTrailers)
          => rec = recordError("error", "trailer_mismatch")

\* the number of records each source of whole records holds
RecordsIn(b) ==
    CASE b = <<>> -> 0
      [] b = RecordS4 -> 1
      [] b = RecordS4 \o RecordS4 -> 2
      [] b = StreamS5 -> 3
      [] b = IPortRecord(0, \hb1, \h05, 0) -> 1
      [] b = IPortRecord(2, \hb1, \h05, 0) -> 1
      [] b = IPortRecord(1, \hb1, \h05, 0) \o IPortRecord(2, \hb1, \h05, 0) -> 2
      [] OTHER -> -1

\* the sources that end inside a record
CutRecords ==
    {SubSeq(RecordS4, 1, 18), SubSeq(RecordS4, 1, 30), SubSeq(RecordS4, 1, 55),
     HeaderS1 \o <<\h2c, \h23, \h42, \h2c, \h00, \h50>>}

\* C24: the record generator yields the records of the source in file
\* order, one per pull; it ends the sequence without error when end of input
\* falls on a record boundary and with a stream error when it falls inside a
\* record, and never yields more records than the source holds (one for
\* scenario S4, three for the stream S5).
C24_RecordGenerator ==
    /\ (caller = "generator" /\ RecordsIn(stream) >= 0)
          => Len(gen.yielded) <= RecordsIn(stream)
    /\ (caller = "generator" /\ cpc = "gen_done" /\ RecordsIn(stream) >= 0)
          => Len(gen.yielded) = RecordsIn(stream) /\ gen.end = "clean"
    /\ (caller = "generator" /\ cpc = "gen_done" /\ stream \in CutRecords)
          => gen.end = "error"
    /\ (caller = "generator" /\ cpc = "gen_done" /\ stream = StreamS5)
          => /\ Len(gen.yielded) = 3
             /\ gen.yielded[1].header.EventType = 6159
             /\ gen.yielded[2].header.EventType = 32800
             /\ gen.yielded[3].header.EventType = 45001

\* the number of bytes TokenFromByteInput takes from a source holding the
\* bytes b that answers every Read with all the bytes asked for
usedFullReads(b) ==
    IF b = <<>> THEN 0
    ELSE LET r    == determineTokenSize(Slice(b, 0, 1))
             rest == Len(b) - 1
         IN  IF r.err # "none" THEN 1
             ELSE IF r.moreBytes # 0 THEN 1 + Min(rest, r.moreBytes)
             ELSE 1 + Min(rest, r.size - 1)

\* the calls a parser makes when it reads the tokens of b on its own
RECURSIVE aloneCalls(_, _, _)
aloneCalls(b, at, k) ==
    LET r == TokenFromFullReads(b)
        u == usedFullReads(b)
        c == [ret |-> r, at |-> at, used |-> u]
    IN  IF r.kind # "panic" /\ k < MaxCalls
        THEN <<c>> \o aloneCalls(SubSeq(b, u + 1, Len(b)), at + u, k + 1)
        ELSE <<c>>

isPrefix(s, t) == Len(s) <= Len(t) /\ s = SubSeq(t, 1, Len(s))

\* a parser reading the tokens of its source on its own makes the calls of
\* aloneCalls
AloneCallsAgree ==
    (caller = "tokens" /\ ~short)
       => /\ isPrefix(calls, aloneCalls(stream, 0, 1))
          /\ cpc = "ended" => calls = aloneCalls(stream, 0, 1)

\* C25: two parsers on two independent sources, their steps interleaved in
\* any order, each return exactly the tokens and errors they return when
\* run alone: nothing a call reads or writes is shared between calls or
\* between parsers.
C25_IndependentParsers ==
    caller = "pair"
       => /\ isPrefix(calls, aloneCalls(stream, 0, 1))
          /\ isPrefix(other.calls, aloneCalls(other.stream, 0, 1))
          /\ cpc = "ended" => calls = aloneCalls(stream, 0, 1)
          /\ other.cpc = "ended" => other.calls = aloneCalls(other.stream, 0, 1)

\* both parsers have ended, each after a token and an error, and one was
\* stopped inside a call while the other was inside a call
C25_Witness ==
    /\ caller = "pair"
    /\ cpc = "ended" /\ other.cpc = "ended"
    /\ other.mid
    /\ Len(calls) >= 3 /\ Len(other.calls) >= 2
    /\ stream # other.stream

\* the slice s with 0x00 bytes put in front of it to make n bytes
leftPadded(s, n) == [i \in 1 .. n |-> IF i <= n - Len(s) THEN 0 ELSE s[i - (n - Len(s))]]

\* C26: bytesToUint32 on a slice of at most 4 bytes, and bytesToUint16 on a
\* slice of at most 2 bytes, return without error the big-endian unsigned
\* value of the bytes; a shorter slice is read as if left-padded with 0x00
\* bytes, so that prepending 0x00 does not change the value, and the empty
\* slice gives 0.  On a longer slice they return an overflow error and 0.
C26_BigEndianHelpers ==
    pc = "converted"
       => /\ Len(input) <= 4
                => LET p == leftPadded(input, 4)
                   IN  /\ ~ret.u32.err
                       /\ ret.u32.val = <<256 * p[1] + p[2], 256 * p[3] + p[4]>>
          /\ Len(input) <= 2
                => LET p == leftPadded(input, 2)
                   IN  /\ ~ret.u16.err
                       /\ ret.u16.val = 256 * p[1] + p[2]
          /\ Len(input) < 4 => bytesToUint32(<<0>> \o input) = ret.u32
          /\ Len(input) < 2 => bytesToUint16(<<0>> \o input) = ret.u16
          /\ input = <<>> => ret.u32.val = <<0, 0>> /\ ret.u16.val = 0
          /\ Len(input) > 4 => ret.u32.err /\ ret.u32.val = <<0, 0>>
          /\ Len(input) > 2 => ret.u16.err /\ ret.u16.val = 0

\* the helpers have been applied to four bytes with the top bit set
C26_Witness ==
    /\ pc = "converted"
    /\ input = <<\hff, \h80, \h01, \hff>>
    /\ ret.u32 = [val |-> <<65408, 511>>, err |-> FALSE]

----------------------------------------------------------------------------
(* Properties of the loops of TokenFromByteInput and of the oracle's       *)
(* answers.                                                                *)

\* C27: when the oracle asks for k more bytes, TokenFromByteInput reads
\* exactly k further bytes from the source, adding up short reads, then
\* leaves the read loop and asks the oracle again; on a source that holds
\* the complete token the loop ends and TokenFromByteInput returns.
C27_NeedMoreLoop ==
    /\ pc = "loop" => bufidx - 1 < res.moreBytes
    /\ \A t \in VariableTags :
          (returned /\ WholeToken(t)) => ret.kind \in {"token", "error"}

\* what the oracle asks for when it is given only the tag byte of in
tagOnlyRequest(in) == determineTokenSize(Slice(in, 0, 1)).moreBytes

\* the tags whose token is a count followed by that many NUL-terminated
\* strings
CountedArrayTags == {\h25, \h3c, \h3d}

\* the count of a counted array of strings, as a uint32
arrayCount(in) ==
    IF At(in, 0) = \h25 THEN u32(256 * At(in, 1) + At(in, 2))
    ELSE <<256 * At(in, 1) + At(in, 2), 256 * At(in, 3) + At(in, 4)>>

\* the NUL bytes a prefix holds after the count field
nulsHeld(in) == countNul(Slice(in, tagOnlyRequest(in) + 1, Len(in)))

\* the rounds of the oracle alone: for every tag other than 0x25, 0x3c and
\* 0x3d the call that follows the delivery of the bytes asked for on the tag
\* byte returns a size or an error; for these three, that call and every
\* later one asks for exactly one more byte while the prefix holds fewer NUL
\* bytes after the count field than the count, and returns the length of
\* the prefix as the size otherwise
OracleRounds ==
    /\ (asked /\ pc = "oracle" /\ Len(input) > 1
              /\ At(input, 0) \notin CountedArrayTags
              /\ Len(input) = 1 + tagOnlyRequest(input))
          => res.moreBytes = 0
    /\ (asked /\ pc = "oracle" /\ Len(input) > 1
              /\ At(input, 0) \in CountedArrayTags
              /\ Len(input) >= 1 + tagOnlyRequest(input))
          => res = IF intLess(nulsHeld(input), arrayCount(input))
                   THEN needMore(1)
                   ELSE sized(Len(input))

\* C28: for every tag, once the caller has delivered the bytes the oracle
\* asked for in its answer to the tag-only prefix, the next call of the
\* oracle returns a definite size or an error: no tag needs more than one
\* round of further bytes, so the loop of TokenFromByteInput is left after
\* at most one round of further bytes.
C28_OneRound ==
    /\ (asked /\ pc = "oracle" /\ Len(input) > 1
              /\ Len(input) = 1 + tagOnlyRequest(input))
          => res.moreBytes = 0
    /\ (bufidx > 1 /\ bufidx = 1 + tagOnlyRequest(tokenBuffer))
          => pc # "loop"

\* C29: for every content of the source and every way the source splits
\* its reads, TokenFromByteInput never slices its token buffer outside its
\* bounds: at each read of the need-more loop bufidx + increase <=
\* len(tokenBuffer), at the final read bufidx <= buflen, and the call ends by
\* returning a token or an error, never by a runtime failure.
C29_BufferBounds ==
    /\ pc = "loop" => bufidx + increase <= Len(tokenBuffer)
    /\ pc = "final" => bufidx <= buflen
    /\ returned => ret.kind # "panic"

\* the prefix in with its tag byte replaced by t
retagged(in, t) == Patch(in, 0, <<t>>)

\* C30: for the same address type, 4 or 16, the size the oracle returns for
\* the expanded 64-bit header (0x79) exceeds the size it returns for the
\* expanded 32-bit header (0x15) by exactly 8 bytes, the two timestamp
\* fields widening from 4 to 8 bytes each, which is the difference between
\* the plain headers 0x74 (26) and 0x14 (18); both expanded headers read the
\* address type from the same offsets 10..13.
C30_ExpandedHeaderWidths ==
    /\ askedTag(\h14) => determineTokenSize(retagged(input, \h74)).size = res.size + 8
    /\ askedTag(\h15) =>
          LET wide == determineTokenSize(retagged(input, \h79))
          IN  /\ wide.moreBytes = res.moreBytes
              /\ wide.err = res.err
              /\ res.size > 0 => wide.size = res.size + 8

====
